---- MODULE Spec2Model ----
(***************************************************************************)
(* State-machine model of the JSON Lines COPY format of jsonlines.c: the   *)
(* buffered line reader, the gzip adapters around zlib's inflate/deflate,  *)
(* the per-row decoder and encoder, and the callbacks the COPY driver      *)
(* calls (process-one-option, start, one-row, end) in both directions.     *)
(*                                                                         *)
(* Bytes are integers (ASCII codes), so that the C string routines         *)
(* (strchr, strlen, strcmp) can be modelled by what they do on a 0 byte.   *)
(***************************************************************************)
EXTENDS Integers, Sequences, FiniteSets, TLC

(***************************************************************************)
(* Bounds.  The three buffer capacities are 65536, 65536 and 256K in the   *)
(* source; they are scaled down here so that refills, full output buffers  *)
(* and lines longer than a buffer all happen on short streams.             *)
(***************************************************************************)
INPUT_BUF_SIZE == 3

RAW_BUF_SIZE == 3

GZIP_CHUNK_SIZE == 4

\* rows written per COPY TO, and lines per hand-made source file
MaxRows == 2

\* format options handed to the process-one-option callback per COPY TO
MaxOpts == 2

(***************************************************************************)
(* Characters                                                              *)
(***************************************************************************)
Ch == [nul |-> 0, nl |-> 10, quote |-> 34, comma |-> 44, colon |-> 58,
       bslash |-> 92, lbrace |-> 123, rbrace |-> 125,
       a |-> 97, b |-> 98, c |-> 99, n |-> 110, x |-> 120, z |-> 122,
       zero |-> 48, nine |-> 57]

LitTrue == <<116, 114, 117, 101>>

LitFalse == <<102, 97, 108, 115, 101>>

LitNull == <<110, 117, 108, 108>>

Min(i, j) == IF i <= j THEN i ELSE j

Take(s, k) == SubSeq(s, 1, Min(k, Len(s)))

Drop(s, k) == SubSeq(s, Min(k, Len(s)) + 1, Len(s))

\* the C string held in a buffer: the bytes before the first 0 byte
RECURSIVE CStr(_)
CStr(s) ==
    IF s = <<>> \/ Head(s) = Ch.nul THEN <<>> ELSE <<Head(s)>> \o CStr(Tail(s))

\* strchr(s, '\n') on the C string held in s: the 1-based position of the
\* first newline before the first 0 byte, or 0 (NULL)
RECURSIVE StrChrNl(_, _)
StrChrNl(s, i) ==
    IF i > Len(s) \/ s[i] = Ch.nul THEN 0
    ELSE IF s[i] = Ch.nl THEN i
    ELSE StrChrNl(s, i + 1)

(***************************************************************************)
(* The relation being copied: its tuple descriptor and the rows of it.     *)
(***************************************************************************)
TupleDesc == << [attname |-> <<Ch.a>>, atttype |-> "int4"],
                [attname |-> <<Ch.b>>, atttype |-> "text"],
                [attname |-> <<Ch.c>>, atttype |-> "bool"] >>

natts == Len(TupleDesc)

attnumlist == 1 .. natts

NullInt == [isnull |-> TRUE, value |-> 0]

NullText == [isnull |-> TRUE, value |-> <<>>]

NullBool == [isnull |-> TRUE, value |-> FALSE]

Datum(v) == [isnull |-> FALSE, value |-> v]

\* the rows a COPY TO may be handed
Rows == { << Datum(12), Datum(<<Ch.x, Ch.x, Ch.x>>), Datum(TRUE) >>,
          << NullInt, Datum(<<Ch.quote, Ch.nl>>), Datum(FALSE) >>,
          << Datum(5), NullText, NullBool >>,
          << NullInt, NullText, NullBool >> }

(***************************************************************************)
(* row_to_json and text_to_cstring (PostgreSQL): the JSON text of a row.   *)
(***************************************************************************)
RECURSIVE IntToText(_)
IntToText(k) ==
    IF k < 10 THEN <<Ch.zero + k>>
    ELSE IntToText(k \div 10) \o <<Ch.zero + (k % 10)>>

RECURSIVE EscapeJson(_)
EscapeJson(s) ==
    IF s = <<>> THEN <<>>
    ELSE LET h == Head(s) IN
         (IF h = Ch.quote THEN <<Ch.bslash, Ch.quote>>
          ELSE IF h = Ch.bslash THEN <<Ch.bslash, Ch.bslash>>
          ELSE IF h = Ch.nl THEN <<Ch.bslash, Ch.n>>
          ELSE <<h>>) \o EscapeJson(Tail(s))

JsonString(s) == <<Ch.quote>> \o EscapeJson(s) \o <<Ch.quote>>

DatumToJson(d, atttype) ==
    IF d.isnull THEN LitNull
    ELSE IF atttype = "int4" THEN IntToText(d.value)
    ELSE IF atttype = "bool" THEN (IF d.value THEN LitTrue ELSE LitFalse)
    ELSE JsonString(d.value)

RECURSIVE JsonMembers(_, _)
JsonMembers(row, i) ==
    IF i > natts THEN <<>>
    ELSE (IF i > 1 THEN <<Ch.comma>> ELSE <<>>)
         \o JsonString(TupleDesc[i].attname) \o <<Ch.colon>>
         \o DatumToJson(row[i], TupleDesc[i].atttype)
         \o JsonMembers(row, i + 1)

row_to_json(row) == <<Ch.lbrace>> \o JsonMembers(row, 1) \o <<Ch.rbrace>>

(***************************************************************************)
(* jsonb_in (PostgreSQL): parse a C string as one JSON value.  Objects     *)
(* with scalar members and top-level scalars are parsed; anything else is  *)
(* a syntax error.                                                         *)
(***************************************************************************)
JbNull == [type |-> "jbvNull", boolean |-> FALSE, string |-> <<>>, numeric |-> 0]

JbBool(v) == [type |-> "jbvBool", boolean |-> v, string |-> <<>>, numeric |-> 0]

JbString(v) == [type |-> "jbvString", boolean |-> FALSE, string |-> v, numeric |-> 0]

JbNumeric(v) == [type |-> "jbvNumeric", boolean |-> FALSE, string |-> <<>>, numeric |-> v]

ParseFail == [ok |-> FALSE, val |-> JbNull, next |-> 0]

ParseOk(v, nx) == [ok |-> TRUE, val |-> v, next |-> nx]

RECURSIVE ParseStr(_, _, _)
ParseStr(s, i, acc) ==
    IF i > Len(s) THEN ParseFail
    ELSE IF s[i] = Ch.quote THEN ParseOk(JbString(acc), i + 1)
    ELSE IF s[i] = Ch.bslash THEN
        IF i + 1 > Len(s) THEN ParseFail
        ELSE IF s[i + 1] = Ch.n THEN ParseStr(s, i + 2, Append(acc, Ch.nl))
        ELSE IF s[i + 1] \in {Ch.quote, Ch.bslash}
             THEN ParseStr(s, i + 2, Append(acc, s[i + 1]))
        ELSE ParseFail
    ELSE IF s[i] < 32 THEN ParseFail
    ELSE ParseStr(s, i + 1, Append(acc, s[i]))

IsDigit(ch) == ch >= Ch.zero /\ ch <= Ch.nine

RECURSIVE ParseNum(_, _, _)
ParseNum(s, i, acc) ==
    IF i <= Len(s) /\ IsDigit(s[i])
    THEN ParseNum(s, i + 1, 10 * acc + (s[i] - Ch.zero))
    ELSE ParseOk(JbNumeric(acc), i)

ParseLit(s, i, lit, v) ==
    IF i + Len(lit) - 1 <= Len(s) /\ SubSeq(s, i, i + Len(lit) - 1) = lit
    THEN ParseOk(v, i + Len(lit))
    ELSE ParseFail

ParseValue(s, i) ==
    IF i > Len(s) THEN ParseFail
    ELSE IF s[i] = Ch.quote THEN ParseStr(s, i + 1, <<>>)
    ELSE IF IsDigit(s[i]) THEN
        IF s[i] = Ch.zero /\ i < Len(s) /\ IsDigit(s[i + 1]) THEN ParseFail
        ELSE ParseNum(s, i, 0)
    ELSE IF s[i] = LitTrue[1] THEN ParseLit(s, i, LitTrue, JbBool(TRUE))
    ELSE IF s[i] = LitFalse[1] THEN ParseLit(s, i, LitFalse, JbBool(FALSE))
    ELSE IF s[i] = LitNull[1] THEN ParseLit(s, i, LitNull, JbNull)
    ELSE ParseFail

\* members of an object from position i on: a function from keys to values,
\* the last of several equal keys winning
RECURSIVE ParseMembers(_, _, _)
ParseMembers(s, i, obj) ==
    IF i > Len(s) \/ s[i] # Ch.quote THEN [ok |-> FALSE, obj |-> obj]
    ELSE LET k == ParseStr(s, i + 1, <<>>) IN
         IF ~k.ok \/ k.next > Len(s) \/ s[k.next] # Ch.colon
         THEN [ok |-> FALSE, obj |-> obj]
         ELSE LET v == ParseValue(s, k.next + 1)
                  o2 == (k.val.string :> v.val) @@ obj
              IN IF ~v.ok \/ v.next > Len(s) THEN [ok |-> FALSE, obj |-> obj]
                 ELSE IF s[v.next] = Ch.rbrace
                      THEN [ok |-> v.next = Len(s), obj |-> o2]
                 ELSE IF s[v.next] = Ch.comma THEN ParseMembers(s, v.next + 1, o2)
                 ELSE [ok |-> FALSE, obj |-> obj]

NoMembers == [k \in {} |-> JbNull]

\* [ok, obj]: ok is FALSE on a syntax error; obj maps the keys of a
\* top-level object to their values (no keys for a top-level scalar)
jsonb_in(s) ==
    IF s = <<>> THEN [ok |-> FALSE, obj |-> NoMembers]
    ELSE IF s[1] = Ch.lbrace THEN
        IF Len(s) >= 2 /\ s[2] = Ch.rbrace
        THEN [ok |-> Len(s) = 2, obj |-> NoMembers]
        ELSE ParseMembers(s, 2, NoMembers)
    ELSE LET v == ParseValue(s, 1) IN
         [ok |-> v.ok /\ v.next = Len(s) + 1, obj |-> NoMembers]

\* getKeyJsonValueFromContainer: the value under a key, or not found (NULL)
getKeyJsonValueFromContainer(obj, attname) ==
    IF attname \in DOMAIN obj THEN [found |-> TRUE, v |-> obj[attname]]
    ELSE [found |-> FALSE, v |-> JbNull]

GetJsonbValueAsCString(v) ==
    IF v.type = "jbvBool" THEN (IF v.boolean THEN LitTrue ELSE LitFalse)
    ELSE IF v.type = "jbvString" THEN v.string
    ELSE IF v.type = "jbvNumeric" THEN IntToText(v.numeric)
    ELSE <<>>

(***************************************************************************)
(* The per-column input functions (int4in, textin, boolin), called through *)
(* InputFunctionCallSafe: [ok, value].                                     *)
(***************************************************************************)
AllDigits(s) == s # <<>> /\ \A i \in 1 .. Len(s) : IsDigit(s[i])

InputFunctionCallSafe(atttype, str) ==
    IF atttype = "int4" THEN
        IF AllDigits(str) THEN [ok |-> TRUE, value |-> ParseNum(str, 1, 0).val.numeric]
        ELSE [ok |-> FALSE, value |-> 0]
    ELSE IF atttype = "bool" THEN
        IF str \in {LitTrue, <<Ch.zero + 1>>} THEN [ok |-> TRUE, value |-> TRUE]
        ELSE IF str \in {LitFalse, <<Ch.zero>>} THEN [ok |-> TRUE, value |-> FALSE]
        ELSE [ok |-> FALSE, value |-> FALSE]
    ELSE [ok |-> TRUE, value |-> str]

(***************************************************************************)
(* zlib.  The gzip stream is modelled as a two-byte header, a body of      *)
(* one-byte tokens (a literal, or a run token that repeats the last        *)
(* literal twice more), an end-of-stream token and a length check byte.    *)
(* A z_stream is the record of what deflate/inflate keep between calls.    *)
(***************************************************************************)
Gz == [id1 |-> 31, id2 |-> 139, eos |-> 0, run |-> 1, lit |-> 128, modulus |-> 128]

ZNegative == {"Z_STREAM_ERROR", "Z_DATA_ERROR", "Z_BUF_ERROR"}

\* MemSet(strm, 0, ...) / zeroed state memory: no transform state attached
ZUnset == [status |-> "unset", wrote_hdr |-> FALSE, window |-> <<>>,
           pending |-> <<>>, total |-> 0, last |-> -1, run |-> 0]

\* deflateInit2
DeflateInit == [ZUnset EXCEPT !.status = "busy"]

\* inflateInit2
InflateInit == [ZUnset EXCEPT !.status = "hdr1"]

\* deflateEnd / inflateEnd: frees the transform state
ZEnd(z) == [z EXCEPT !.status = "ended"]

ZLive(z) == z.status \notin {"unset", "ended"}

RECURSIVE GzBody(_)
GzBody(s) ==
    IF s = <<>> THEN <<>>
    ELSE IF Len(s) >= 3 /\ s[2] = s[1] /\ s[3] = s[1]
         THEN <<Gz.lit + s[1], Gz.run>> \o GzBody(Drop(s, 3))
    ELSE <<Gz.lit + s[1]>> \o GzBody(Tail(s))

\* One call deflate(strm, flush) with input `in` and avail_out bytes of room.
\* `emit` is the library's choice, under Z_NO_FLUSH, to close the block it
\* has buffered in its window now or to keep buffering.
\* [strm, rest (input not consumed), out (bytes produced), ret]
deflate(z, in, flush, emit, avail_out) ==
    IF z.status \notin {"busy", "finish"} \/ (z.status = "finish" /\ flush # "Z_FINISH")
    THEN [strm |-> z, rest |-> in, out |-> <<>>, ret |-> "Z_STREAM_ERROR"]
    ELSE IF z.status = "finish" /\ in # <<>>
    THEN [strm |-> z, rest |-> in, out |-> <<>>, ret |-> "Z_BUF_ERROR"]
    ELSE IF z.pending # <<>> /\ Len(z.pending) >= avail_out
    THEN [strm |-> [z EXCEPT !.pending = Drop(@, avail_out)], rest |-> in,
          out |-> Take(z.pending, avail_out), ret |-> "Z_OK"]
    ELSE LET fin == flush = "Z_FINISH" /\ z.status = "busy"
             win == z.window \o in
             block == (fin \/ emit) /\ win # <<>>
             total == (z.total + Len(in)) % Gz.modulus
             all == z.pending
                    \o (IF z.wrote_hdr THEN <<>> ELSE <<Gz.id1, Gz.id2>>)
                    \o (IF block THEN GzBody(win) ELSE <<>>)
                    \o (IF fin THEN <<Gz.eos, total>> ELSE <<>>)
             z2 == [z EXCEPT !.status = IF fin THEN "finish" ELSE @,
                             !.wrote_hdr = TRUE,
                             !.window = IF block THEN <<>> ELSE win,
                             !.pending = Drop(all, avail_out),
                             !.total = total]
             out == Take(all, avail_out)
         IN [strm |-> z2, rest |-> <<>>, out |-> out,
             ret |-> IF z2.status = "finish" /\ z2.pending = <<>> THEN "Z_STREAM_END"
                     ELSE IF in = <<>> /\ out = <<>> THEN "Z_BUF_ERROR"
                     ELSE "Z_OK"]

\* inflate's loop over the input from offset i on, with `out` produced so far
RECURSIVE InflateRun(_, _, _, _, _)
InflateRun(z, in, i, out, avail_out) ==
    LET stop(r) == [strm |-> z, consumed |-> i, out |-> out, ret |-> r]
        room == Len(out) < avail_out
    IN IF z.run > 0 THEN
           IF room
           THEN InflateRun([z EXCEPT !.run = @ - 1, !.total = (@ + 1) % Gz.modulus],
                           in, i, Append(out, z.last), avail_out)
           ELSE stop("Z_OK")
       ELSE IF z.status = "done" THEN stop("Z_STREAM_END")
       ELSE IF i >= Len(in) THEN stop("Z_OK")
       ELSE LET b == in[i + 1] IN
            IF z.status = "hdr1" THEN
                IF b = Gz.id1
                THEN InflateRun([z EXCEPT !.status = "hdr2"], in, i + 1, out, avail_out)
                ELSE stop("Z_DATA_ERROR")
            ELSE IF z.status = "hdr2" THEN
                IF b = Gz.id2
                THEN InflateRun([z EXCEPT !.status = "body"], in, i + 1, out, avail_out)
                ELSE stop("Z_DATA_ERROR")
            ELSE IF z.status = "body" THEN
                IF b >= Gz.lit THEN
                    IF room
                    THEN InflateRun([z EXCEPT !.last = b - Gz.lit,
                                              !.total = (@ + 1) % Gz.modulus],
                                    in, i + 1, Append(out, b - Gz.lit), avail_out)
                    ELSE stop("Z_OK")
                ELSE IF b = Gz.run /\ z.last >= 0
                THEN InflateRun([z EXCEPT !.run = 2], in, i + 1, out, avail_out)
                ELSE IF b = Gz.eos
                THEN InflateRun([z EXCEPT !.status = "trl"], in, i + 1, out, avail_out)
                ELSE stop("Z_DATA_ERROR")
            ELSE \* "trl": the length check byte
                IF b = z.total
                THEN InflateRun([z EXCEPT !.status = "done"], in, i + 1, out, avail_out)
                ELSE stop("Z_DATA_ERROR")

\* One call inflate(strm, Z_NO_FLUSH) with input `in` and avail_out bytes of
\* room: [strm, consumed, out, ret]
inflate(z, in, avail_out) ==
    IF ~ZLive(z)
    THEN [strm |-> z, consumed |-> 0, out |-> <<>>, ret |-> "Z_STREAM_ERROR"]
    ELSE LET r == InflateRun(z, in, 0, <<>>, avail_out) IN
         IF r.ret = "Z_OK" /\ r.consumed = 0 /\ r.out = <<>>
         THEN [r EXCEPT !.ret = "Z_BUF_ERROR"]
         ELSE r

\* a standard compressor's output for the whole text s
GzipOf(s) == <<Gz.id1, Gz.id2>> \o GzBody(s) \o <<Gz.eos, Len(s) % Gz.modulus>>

(***************************************************************************)
(* State                                                                   *)
(***************************************************************************)
VARIABLES
    dir,              \* "to" (COPY TO) or "from" (COPY FROM)
    pc,               \* where the driver is in its callback sequence
    errmsg,           \* the ERROR raised (ereport/elog(ERROR)), or "none"
    file,             \* the bytes of the file: the sink of TO, the source of FROM
    filename,         \* cstate->base.filename of COPY FROM, "" for NULL
    \* CopyToStateJsonLines
    options,          \* .options: compression, compression_detail_str
    to_strm,          \* .strm, the deflate stream
    \* CopyFromStateJsonLines
    compression, from_strm,
    raw_buf, raw_buf_index, raw_buf_len,
    input_buf, input_buf_index, input_buf_len,
    line_buf,
    values, nulls,    \* the Decoded Row the driver hands to every one-row call
    src_pos,          \* bytes of the file CopyFromGetData has returned so far
    \* history
    nopts,            \* options processed
    opt_ret,          \* what the last process-one-option call returned
    last_opt,         \* the DefElem of the last process-one-option call
    written,          \* rows handed to COPY TO, in order
    zlog,             \* COPY TO's transform: "init", the flush flag of every
                      \* write_gzip call, "end"
    last_wg,          \* summary of the last write_gzip call
    rows_read,        \* rows COPY FROM returned, in order
    lines,            \* the lines (Line Buffer contents) the reader returned
    src_eof,          \* CopyFromGetData has returned 0
    inbytes,          \* raw bytes offered to inflate in the last read_gzip
    fed,              \* the bytes inflate has consumed, in the order it got them
    iter,             \* parity of the for (;;) iterations done in the running
                      \* JsonLineReadLine call, 0 outside of it
    origin,           \* "hand": a hand-made source file; "copyto": COPY TO wrote it
    ztrace,           \* [inits, ends]: transform states created and released
    objs              \* what the hand-made source file was rendered from

toVars == <<options, to_strm>>

fromVars == <<compression, from_strm, raw_buf, raw_buf_index, raw_buf_len,
              input_buf, input_buf_index, input_buf_len, line_buf,
              values, nulls, src_pos>>

toHist == <<nopts, opt_ret, last_opt, written, zlog, last_wg>>

fromHist == <<rows_read, lines, src_eof, inbytes, fed, iter, origin, objs>>

vars == <<dir, pc, errmsg, file, filename, toVars, fromVars, toHist, fromHist, ztrace>>

error == errmsg # "none"

RAW_BUF_BYTES == raw_buf_len - raw_buf_index

INPUT_BUF_BYTES == input_buf_len - input_buf_index

(***************************************************************************)
(* COPY TO                                                                 *)
(***************************************************************************)
AlgNames == {"none", "gzip", "lz4", "zstd", "snappy"}

DetailStrs == {"level=9", "level=99"}

OptNames == {"compression", "compression_detail", "header"}

\* parse_compress_algorithm (PostgreSQL common/compression.c)
parse_compress_algorithm(name) ==
    IF name = "none" THEN [ok |-> TRUE, alg |-> "PG_COMPRESSION_NONE"]
    ELSE IF name = "gzip" THEN [ok |-> TRUE, alg |-> "PG_COMPRESSION_GZIP"]
    ELSE IF name = "lz4" THEN [ok |-> TRUE, alg |-> "PG_COMPRESSION_LZ4"]
    ELSE IF name = "zstd" THEN [ok |-> TRUE, alg |-> "PG_COMPRESSION_ZSTD"]
    ELSE [ok |-> FALSE, alg |-> "PG_COMPRESSION_NONE"]

\* parse_compress_specification followed by validate_compress_specification:
\* TRUE when error_detail is NULL
CompressSpecOk(alg, detail) ==
    \/ detail = "NULL"
    \/ alg = "PG_COMPRESSION_GZIP" /\ detail = "level=9"

\* (mutant: lz4 and zstd are not rejected)
JsonLinesCopyToProcessOneOptionAnyAlgorithm(defname, val) ==
    /\ dir = "to" /\ pc = "opts" /\ ~error /\ nopts < MaxOpts
    /\ nopts' = nopts + 1
    /\ last_opt' = <<defname, val>>
    /\ IF defname = "compression" THEN
           LET p == parse_compress_algorithm(val) IN
           /\ options' = IF p.ok THEN [options EXCEPT !.compression = p.alg] ELSE options
           /\ errmsg' = IF ~p.ok THEN "unrecognized compression algorithm" ELSE errmsg
           /\ opt_ret' = IF errmsg' # "none" THEN "raised" ELSE "true"
       ELSE IF defname = "compression_detail" THEN
           /\ options' = [options EXCEPT !.compression_detail_str = val]
           /\ UNCHANGED errmsg
           /\ opt_ret' = "true"
       ELSE
           /\ opt_ret' = "false"
           /\ UNCHANGED <<options, errmsg>>
    /\ UNCHANGED <<dir, pc, file, filename, to_strm, fromVars, written, zlog,
                   last_wg, fromHist, ztrace>>

\* JsonLinesCopyToProcessOneOption(cstate, option)
JsonLinesCopyToProcessOneOption(defname, val) ==
    /\ dir = "to" /\ pc = "opts" /\ ~error /\ nopts < MaxOpts
    /\ nopts' = nopts + 1
    /\ last_opt' = <<defname, val>>
    /\ IF defname = "compression" THEN
           LET p == parse_compress_algorithm(val) IN
           /\ options' = IF p.ok THEN [options EXCEPT !.compression = p.alg] ELSE options
           /\ errmsg' = IF ~p.ok THEN "unrecognized compression algorithm"
                        ELSE IF p.alg = "PG_COMPRESSION_LZ4"
                        THEN "LZ4 compression is not supported"
                        ELSE IF p.alg = "PG_COMPRESSION_ZSTD"
                        THEN "Zstd compression is not supported"
                        ELSE errmsg
           /\ opt_ret' = IF errmsg' # "none" THEN "raised" ELSE "true"
       ELSE IF defname = "compression_detail" THEN
           /\ options' = [options EXCEPT !.compression_detail_str = val]
           /\ UNCHANGED errmsg
           /\ opt_ret' = "true"
       ELSE
           /\ opt_ret' = "false"
           /\ UNCHANGED <<options, errmsg>>
    /\ UNCHANGED <<dir, pc, file, filename, to_strm, fromVars, written, zlog,
                   last_wg, fromHist, ztrace>>

\* JsonLinesCopyToStart, with initialize_deflate_gzip
JsonLinesCopyToStart ==
    /\ dir = "to" /\ pc = "opts" /\ ~error
    /\ IF ~CompressSpecOk(options.compression, options.compression_detail_str)
       THEN /\ errmsg' = "invalid compression specification"
            /\ UNCHANGED <<to_strm, zlog, ztrace>>
       ELSE /\ UNCHANGED errmsg
            /\ IF options.compression = "PG_COMPRESSION_GZIP"
               THEN /\ to_strm' = DeflateInit
                    /\ zlog' = Append(zlog, "init")
                    /\ ztrace' = [ztrace EXCEPT !.inits = @ + 1]
               ELSE UNCHANGED <<to_strm, zlog, ztrace>>
    /\ pc' = "rows"
    /\ UNCHANGED <<dir, file, filename, options, fromVars, nopts, opt_ret, last_opt,
                   written, last_wg, fromHist>>

\* (mutant: deflate is called once, whatever it left in a full outbuf)
WriteGzipOnce(z, rest, flush_flag, emit, sent, calls) ==
    LET r == deflate(z, rest, flush_flag, emit, GZIP_CHUNK_SIZE) IN
    [strm |-> r.strm, rest |-> r.rest, sent |-> sent \o r.out, calls |-> calls + 1,
     flush |-> flush_flag, err |-> r.ret = "Z_STREAM_ERROR"]

\* The do-while loop of write_gzip from its first deflate call on: `rest` is
\* the input not yet consumed, `sent` the bytes appended to fe_msgbuf and
\* flushed by CopyToFlushData so far.
RECURSIVE WriteGzipLoop(_, _, _, _, _, _)
WriteGzipLoop(z, rest, flush_flag, emit, sent, calls) ==
    LET r == deflate(z, rest, flush_flag, emit, GZIP_CHUNK_SIZE)
        wr == Len(r.out)
    IN IF r.ret = "Z_STREAM_ERROR"
       THEN [strm |-> r.strm, rest |-> r.rest, sent |-> sent, calls |-> calls + 1,
             flush |-> flush_flag, err |-> TRUE]
       ELSE IF wr = GZIP_CHUNK_SIZE
       THEN WriteGzipLoop(r.strm, r.rest, flush_flag, emit, sent \o r.out, calls + 1)
       ELSE [strm |-> r.strm, rest |-> r.rest, sent |-> sent \o r.out,
             calls |-> calls + 1, flush |-> flush_flag, err |-> FALSE]

\* write_gzip(cstate, rowdata, flush_flag); rowdata is read as a C string
write_gzip(z, rowdata, flush_flag, emit) ==
    WriteGzipLoop(z, CStr(rowdata), flush_flag, emit, <<>>, 0)

WgSummary(w) ==
    [flush |-> w.flush, rest |-> Len(w.rest), sent |-> Len(w.sent),
     calls |-> w.calls, err |-> w.err]

\* JsonLinesCopyToOneRow(cstate, slot)
JsonLinesCopyToOneRow(row, emit) ==
    /\ dir = "to" /\ pc = "rows" /\ ~error /\ Len(written) < MaxRows
    /\ written' = Append(written, row)
    /\ LET str == CStr(row_to_json(row)) IN
       IF options.compression = "PG_COMPRESSION_NONE" THEN
           /\ file' = file \o str \o <<Ch.nl>>
           /\ UNCHANGED <<errmsg, to_strm, zlog, last_wg>>
       ELSE IF options.compression = "PG_COMPRESSION_GZIP" THEN
           LET w == write_gzip(to_strm, str \o <<Ch.nl>>, "Z_NO_FLUSH", emit) IN
           /\ to_strm' = w.strm
           /\ file' = file \o w.sent
           /\ errmsg' = IF w.err THEN "could not compress data" ELSE errmsg
           /\ zlog' = Append(zlog, w.flush)
           /\ last_wg' = WgSummary(w)
       ELSE UNCHANGED <<file, errmsg, to_strm, zlog, last_wg>>
    /\ UNCHANGED <<dir, pc, filename, options, fromVars, nopts, opt_ret, last_opt,
                   fromHist, ztrace>>

\* (mutant: end_deflate_gzip releases the stream without finishing it)
JsonLinesCopyToEndNoFinish ==
    /\ dir = "to" /\ pc \in {"opts", "rows"}
    /\ pc = "opts" => error
    /\ pc' = "ended"
    /\ IF options.compression = "PG_COMPRESSION_GZIP" THEN
           /\ zlog' = Append(zlog, "end")
           /\ to_strm' = ZEnd(to_strm)
           /\ ztrace' = [ztrace EXCEPT !.ends = @ + 1]
           /\ UNCHANGED <<file, last_wg, errmsg>>
       ELSE UNCHANGED <<file, zlog, last_wg, errmsg, to_strm, ztrace>>
    /\ UNCHANGED <<dir, filename, options, fromVars, nopts, opt_ret, last_opt, written,
                   fromHist>>

\* JsonLinesCopyToEnd, with end_deflate_gzip
JsonLinesCopyToEnd ==
    /\ dir = "to" /\ pc \in {"opts", "rows"}
    /\ pc = "opts" => error
    /\ pc' = "ended"
    /\ IF options.compression = "PG_COMPRESSION_GZIP" THEN
           LET w == write_gzip(to_strm, <<>>, "Z_FINISH", FALSE) IN
           /\ file' = file \o w.sent
           /\ zlog' = IF w.err THEN Append(zlog, w.flush)
                      ELSE zlog \o <<w.flush, "end">>
           /\ last_wg' = WgSummary(w)
           /\ errmsg' = IF w.err /\ ~error THEN "could not compress data" ELSE errmsg
           /\ to_strm' = IF w.err THEN w.strm ELSE ZEnd(w.strm)
           /\ ztrace' = IF w.err THEN ztrace ELSE [ztrace EXCEPT !.ends = @ + 1]
       ELSE UNCHANGED <<file, zlog, last_wg, errmsg, to_strm, ztrace>>
    /\ UNCHANGED <<dir, filename, options, fromVars, nopts, opt_ret, last_opt, written,
                   fromHist>>

(***************************************************************************)
(* COPY FROM                                                               *)
(***************************************************************************)
\* JsonLinesCopyFromRoutine.CopyFromProcessOneOption is NULL: the driver has
\* no callback to hand a format option of COPY FROM to.  It either takes the
\* missing callback as "not recognized", which ends the COPY with an error,
\* or calls through the null pointer; `ub` is which.  (The file a COPY TO
\* wrote is read back without format options.)
CopyFromProcessOneOption(defname, val, ub) ==
    /\ dir = "from" /\ pc = "fstart" /\ ~error /\ origin = "hand" /\ nopts < MaxOpts
    /\ nopts' = nopts + 1
    /\ last_opt' = <<defname, val>>
    /\ IF ub = "crash"
       THEN pc' = "crashed" /\ opt_ret' = "none" /\ UNCHANGED errmsg
       ELSE pc' = pc /\ opt_ret' = "false" /\ errmsg' = "option not recognized"
    /\ UNCHANGED <<dir, file, filename, toVars, fromVars, written, zlog,
                   last_wg, fromHist, ztrace>>

\* strrchr(s, ch): the 1-based position of the last ch in s, or 0 (NULL)
RECURSIVE strrchr(_, _, _)
strrchr(s, ch, i) ==
    IF i = 0 THEN 0 ELSE IF s[i] = ch THEN i ELSE strrchr(s, ch, i - 1)

DotGz == <<".", "g", "z">>

\* JsonLinesCopyFromStart, with initialize_inflate_gzip.  strcmp on the
\* NULL that strrchr returns for a name without '.' is undefined: `ub` is
\* what the build makes of it.
JsonLinesCopyFromStart(ub) ==
    /\ dir = "from" /\ pc = "fstart" /\ ~error
    /\ LET ext == strrchr(filename, ".", Len(filename))
           sel == IF ext = 0 THEN ub
                  ELSE IF SubSeq(filename, ext, Len(filename)) = DotGz THEN "gzip"
                  ELSE "none"
       IN IF sel = "crash"
          THEN /\ pc' = "crashed"
               /\ UNCHANGED <<fromVars, ztrace>>
          ELSE /\ pc' = "idle"
               /\ IF sel = "gzip"
                  THEN /\ compression' = "PG_COMPRESSION_GZIP"
                       /\ from_strm' = InflateInit
                       /\ ztrace' = [ztrace EXCEPT !.inits = @ + 1]
                       /\ raw_buf' = <<>> /\ raw_buf_index' = 0 /\ raw_buf_len' = 0
                  ELSE /\ compression' = "PG_COMPRESSION_NONE"
                       /\ UNCHANGED <<from_strm, ztrace, raw_buf, raw_buf_index,
                                      raw_buf_len>>
               /\ input_buf' = <<>> /\ input_buf_index' = 0 /\ input_buf_len' = 0
               /\ line_buf' = <<>>
               /\ UNCHANGED <<values, nulls, src_pos>>
    /\ UNCHANGED <<dir, errmsg, file, filename, toVars, toHist, fromHist>>

\* CopyFromGetData(cstate, buf, 1, maxread) when the source hands over at
\* most n bytes: the bytes returned (none only at the end of the source)
CopyFromGetData(n, maxread) ==
    SubSeq(file, src_pos + 1, Min(Len(file), src_pos + Min(n, maxread)))

\* (mutant: the whole raw chunk counts as consumed)
AdvanceRawBufWhole(ri, nbytes, avail_in) == ri + nbytes

\* "advance raw_buf_index": by the bytes offered less those inflate left
AdvanceRawBuf(ri, nbytes, avail_in) == ri + (nbytes - avail_in)

\* read_gzip(cstate): [err, raw_buf, raw_buf_index, raw_buf_len, strm,
\* input_buf, fetched (bytes got from the source, -1 if none were asked for),
\* inbytes, consumed (the raw bytes inflate took), ended (inflateEnd calls)]
read_gzip(n) ==
    LET fetch == RAW_BUF_BYTES = 0
        got == CopyFromGetData(n, RAW_BUF_SIZE)
        rb == IF fetch THEN got ELSE raw_buf
        rl == IF fetch THEN Len(got) ELSE raw_buf_len
        ri == IF fetch THEN 0 ELSE raw_buf_index
        avail == rl - ri
        r == inflate(from_strm, SubSeq(rb, ri + 1, rl), INPUT_BUF_SIZE)
        bad == r.ret \in ZNegative
    IN [err |-> bad, raw_buf |-> rb, raw_buf_len |-> rl,
        raw_buf_index |-> IF bad THEN ri ELSE AdvanceRawBuf(ri, avail, avail - r.consumed),
        strm |-> IF bad THEN ZEnd(r.strm) ELSE r.strm,
        input_buf |-> IF bad THEN input_buf ELSE r.out,
        input_buf_len |-> IF bad THEN input_buf_len ELSE Len(r.out),
        input_buf_index |-> IF bad THEN input_buf_index ELSE 0,
        fetched |-> IF fetch THEN Len(got) ELSE -1,
        inbytes |-> avail, consumed |-> SubSeq(rb, ri + 1, ri + r.consumed),
        ended |-> IF bad THEN 1 ELSE 0]

NullOf(atttype) ==
    IF atttype = "int4" THEN NullInt ELSE IF atttype = "bool" THEN NullBool ELSE NullText

\* the Decoded Row as the driver reads it: the value of a null cell is unset
DecodedRow(vals, nls) ==
    [i \in 1 .. natts |-> IF nls[i] THEN NullOf(TupleDesc[i].atttype)
                          ELSE Datum(vals[i])]

\* (mutant: a column the object lacks keeps the null flag of the row before)
RECURSIVE DecodeColsKeepsFlag(_, _, _, _)
DecodeColsKeepsFlag(obj, i, vals, nls) ==
    IF i > natts THEN [err |-> "none", values |-> vals, nulls |-> nls]
    ELSE LET v == getKeyJsonValueFromContainer(obj, TupleDesc[i].attname) IN
         IF ~v.found THEN DecodeColsKeepsFlag(obj, i + 1, vals, nls)
         ELSE IF v.v.type = "jbvNull"
         THEN DecodeColsKeepsFlag(obj, i + 1, vals, [nls EXCEPT ![i] = TRUE])
         ELSE LET r == InputFunctionCallSafe(TupleDesc[i].atttype,
                                             CStr(GetJsonbValueAsCString(v.v)))
              IN IF ~r.ok
                 THEN [err |-> "could not convert jsonb value", values |-> vals,
                       nulls |-> [nls EXCEPT ![i] = FALSE]]
                 ELSE DecodeColsKeepsFlag(obj, i + 1, [vals EXCEPT ![i] = r.value],
                                          [nls EXCEPT ![i] = FALSE])

\* the foreach over attnumlist of JsonLinesCopyFromOneRow, from column i on
RECURSIVE DecodeCols(_, _, _, _)
DecodeCols(obj, i, vals, nls) ==
    IF i > natts THEN [err |-> "none", values |-> vals, nulls |-> nls]
    ELSE LET v == getKeyJsonValueFromContainer(obj, TupleDesc[i].attname) IN
         IF ~v.found \/ v.v.type = "jbvNull"
         THEN DecodeCols(obj, i + 1, vals, [nls EXCEPT ![i] = TRUE])
         ELSE LET r == InputFunctionCallSafe(TupleDesc[i].atttype,
                                             CStr(GetJsonbValueAsCString(v.v)))
              IN IF ~r.ok
                 THEN [err |-> "could not convert jsonb value", values |-> vals,
                       nulls |-> [nls EXCEPT ![i] = FALSE]]
                 ELSE DecodeCols(obj, i + 1, [vals EXCEPT ![i] = r.value],
                                 [nls EXCEPT ![i] = FALSE])

\* JsonLinesCopyFromOneRow after JsonLineReadLine returned a full line
DecodeLine(line, vals, nls) ==
    LET jb == jsonb_in(CStr(line)) IN
    IF ~jb.ok THEN [err |-> "invalid data for jsonb value", values |-> vals, nulls |-> nls]
    ELSE DecodeCols(jb.obj, 1, vals, nls)

\* (mutant: the '\n' is left unconsumed)
ConsumeLineKeepsNewline(ii, nbytes) == ii + nbytes

\* (mutant: one byte more than the '\n' is consumed)
ConsumeLineAndOneMore(ii, nbytes) == ii + nbytes + 2

\* input_buf_index once the nbytes of the line and its '\n' are consumed
ConsumeLine(ii, nbytes) == ii + nbytes + 1

\* JsonLinesCopyFromOneRow is entered: JsonLineReadLine resets line_buf
JsonLinesCopyFromOneRow ==
    /\ dir = "from" /\ pc = "idle" /\ ~error
    /\ pc' = "readline"
    /\ line_buf' = <<>>
    /\ UNCHANGED <<dir, errmsg, file, filename, toVars, toHist, fromHist, ztrace,
                   compression, from_strm, raw_buf, raw_buf_index, raw_buf_len,
                   input_buf, input_buf_index, input_buf_len, values, nulls, src_pos>>

\* (mutant: more data is loaded while one byte is still unread)
LoadMoreDataEarly == INPUT_BUF_BYTES <= 1

\* "Load more data if needed"
LoadMoreData == INPUT_BUF_BYTES <= 0

\* (mutant: an empty refill does not end the loop)
StillEmptyNever(nbytes) == FALSE

\* the refill left nbytes unread bytes: none, the loop ends with result true
StillEmpty(nbytes) == nbytes <= 0

\* One iteration of the for (;;) of JsonLineReadLine, the source handing over
\* at most n bytes if it is asked; when the loop ends, the rest of
\* JsonLinesCopyFromOneRow up to its return.
JsonLineReadLine(n) ==
    /\ dir = "from" /\ pc = "readline" /\ ~error
    /\ LET load == LoadMoreData
           plain == compression = "PG_COMPRESSION_NONE"
           got == CopyFromGetData(n, INPUT_BUF_SIZE)
           g == read_gzip(n)
           fail == load /\ ~plain /\ g.err
           ib == IF ~load THEN input_buf ELSE IF plain THEN got ELSE g.input_buf
           il == IF ~load THEN input_buf_len ELSE IF plain THEN Len(got) ELSE g.input_buf_len
           ii == IF ~load THEN input_buf_index ELSE IF plain THEN 0 ELSE g.input_buf_index
           fetched == IF ~load THEN -1 ELSE IF plain THEN Len(got) ELSE g.fetched
           eof == load /\ StillEmpty(il - ii)
           ptr == StrChrNl(ib, ii + 1)
           nbytes == (ptr - 1) - ii
           line == line_buf \o SubSeq(ib, ii + 1, ii + nbytes)
           d == DecodeLine(line, values, nulls)
       IN /\ input_buf' = ib /\ input_buf_len' = il
          /\ src_pos' = IF fetched > 0 THEN src_pos + fetched ELSE src_pos
          /\ src_eof' = (src_eof \/ fetched = 0)
          /\ IF load /\ ~plain
             THEN /\ raw_buf' = g.raw_buf /\ raw_buf_len' = g.raw_buf_len
                  /\ raw_buf_index' = g.raw_buf_index
                  /\ from_strm' = g.strm
                  /\ inbytes' = g.inbytes
                  /\ fed' = fed \o g.consumed
                  /\ ztrace' = [ztrace EXCEPT !.ends = @ + g.ended]
             ELSE UNCHANGED <<raw_buf, raw_buf_len, raw_buf_index, from_strm,
                              inbytes, fed, ztrace>>
          /\ IF fail THEN
                 /\ errmsg' = "could not decompress data"
                 /\ UNCHANGED <<pc, input_buf_index, line_buf, values, nulls,
                                rows_read, lines>>
             ELSE IF eof THEN
                 /\ pc' = "eof"
                 /\ input_buf_index' = ii
                 /\ UNCHANGED <<errmsg, line_buf, values, nulls, rows_read, lines>>
             ELSE IF ptr = 0 THEN
                 /\ line_buf' = line_buf \o SubSeq(ib, ii + 1, il)
                 /\ input_buf_index' = il
                 /\ UNCHANGED <<pc, errmsg, values, nulls, rows_read, lines>>
             ELSE
                 /\ line_buf' = line
                 /\ input_buf_index' = ConsumeLine(ii, nbytes)
                 /\ lines' = Append(lines, line)
                 /\ values' = d.values /\ nulls' = d.nulls
                 /\ errmsg' = d.err
                 /\ pc' = IF d.err = "none" THEN "idle" ELSE pc
                 /\ rows_read' = IF d.err = "none" THEN Append(rows_read, DecodedRow(d.values, d.nulls))
                                 ELSE rows_read
          /\ iter' = IF pc' = "readline" /\ errmsg' = "none" THEN 1 - iter ELSE 0
    /\ UNCHANGED <<dir, file, filename, toVars, toHist, compression, origin, objs>>

\* JsonLinesCopyFromEnd, with end_inflate_gzip
JsonLinesCopyFromEnd ==
    /\ dir = "from" /\ (pc = "eof" \/ (error /\ pc \in {"idle", "readline"}))
    /\ pc' = "ended"
    /\ IF compression = "PG_COMPRESSION_GZIP"
       THEN /\ from_strm' = ZEnd(from_strm)
            /\ ztrace' = [ztrace EXCEPT !.ends = @ + 1]
       ELSE UNCHANGED <<from_strm, ztrace>>
    /\ UNCHANGED <<dir, errmsg, file, filename, toVars, toHist, fromHist,
                   compression, raw_buf, raw_buf_index, raw_buf_len,
                   input_buf, input_buf_index, input_buf_len, line_buf,
                   values, nulls, src_pos>>

(***************************************************************************)
(* Source files of COPY FROM that no COPY TO wrote: JSON objects rendered  *)
(* one per line, with members the relation lacks, members it has and       *)
(* bytes after the object, and a last line that may lack its newline.      *)
(***************************************************************************)
Member(key, text) == [key |-> key, text |-> text]

RECURSIVE RenderMembers(_, _)
RenderMembers(ms, i) ==
    IF i > Len(ms) THEN <<>>
    ELSE (IF i > 1 THEN <<Ch.comma>> ELSE <<>>)
         \o JsonString(ms[i].key) \o <<Ch.colon>> \o ms[i].text
         \o RenderMembers(ms, i + 1)

RenderLine(o) == <<Ch.lbrace>> \o RenderMembers(o.members, 1) \o <<Ch.rbrace>> \o o.junk

HandObjs == { [members |-> << Member(<<Ch.a>>, IntToText(7)) >>, junk |-> <<>>],
              [members |-> << Member(<<Ch.b>>, LitNull), Member(<<Ch.z>>, IntToText(1)) >>,
               junk |-> <<>>],
              [members |-> << Member(<<Ch.a>>, IntToText(7)) >>, junk |-> <<Ch.nul>>],
              [members |-> << Member(<<Ch.c>>, IntToText(7)) >>, junk |-> <<>>],
              [members |-> << >>, junk |-> <<Ch.x>>] }

HandTails == { <<>>, <<Ch.lbrace, Ch.quote, Ch.a, Ch.quote>> }

RECURSIVE RenderLines(_, _)
RenderLines(os, i) ==
    IF i > Len(os) THEN <<>>
    ELSE RenderLine(os[i]) \o <<Ch.nl>> \o RenderLines(os, i + 1)

HandFile(src) == RenderLines(src.lines, 1) \o src.tail

HandSources ==
    { [lines |-> ls, tail |-> t] :
        ls \in UNION { [1 .. k -> HandObjs] : k \in 0 .. MaxRows }, t \in HandTails }

NoSource == [lines |-> <<>>, tail |-> <<>>]

NameJson == <<"f", ".", "j">>

NameGz == <<"f", ".", "g", "z">>

OtherNames == { <<"f", ".", "j", ".", "g", "z">>, <<"f", ".", "g", "z", ".", "j">>,
                <<"f", "g", "z">> }

\* [name, file, objs] of every COPY FROM the model starts from
Sources ==
    { [name |-> NameJson, file |-> HandFile(h), objs |-> h] : h \in HandSources }
    \cup { [name |-> nm, file |-> HandFile(h), objs |-> h] :
             nm \in OtherNames \cup {NameGz},
             h \in { x \in HandSources : Len(x.lines) <= 1 /\ x.tail = <<>> } }
    \cup { [name |-> NameGz, file |-> GzipOf(HandFile(h)), objs |-> h] :
             h \in { x \in HandSources : Len(x.lines) <= 1 } }

(***************************************************************************)
(* The driver                                                              *)
(***************************************************************************)
OptionDefs ==
    { <<"compression", v>> : v \in AlgNames }
    \cup { <<"compression_detail", v>> : v \in DetailStrs }
    \cup { <<"header", "true">> }

NoOptions == [compression |-> "PG_COMPRESSION_NONE", compression_detail_str |-> "NULL"]

NoOpt == <<"none", "none">>

NoWg == [flush |-> "none", rest |-> 0, sent |-> 0, calls |-> 0, err |-> FALSE]

NoZ == [inits |-> 0, ends |-> 0]

Init ==
    /\ errmsg = "none"
    /\ options = NoOptions /\ to_strm = ZUnset
    /\ compression = "PG_COMPRESSION_NONE" /\ from_strm = ZUnset
    /\ raw_buf = <<>> /\ raw_buf_index = 0 /\ raw_buf_len = 0
    /\ input_buf = <<>> /\ input_buf_index = 0 /\ input_buf_len = 0
    /\ line_buf = <<>>
    /\ values = <<0, <<>>, FALSE>> /\ nulls = <<FALSE, FALSE, FALSE>>
    /\ src_pos = 0
    /\ nopts = 0 /\ opt_ret = "none" /\ last_opt = NoOpt /\ written = <<>> /\ zlog = <<>> /\ last_wg = NoWg
    /\ rows_read = <<>> /\ lines = <<>> /\ src_eof = FALSE /\ inbytes = 0 /\ fed = <<>>
    /\ iter = 0
    /\ ztrace = NoZ
    /\ \/ /\ dir = "to" /\ pc = "opts" /\ file = <<>> /\ filename = <<>>
          /\ origin = "copyto" /\ objs = NoSource
       \/ \E src \in Sources :
          /\ dir = "from" /\ pc = "fstart" /\ file = src.file /\ filename = src.name
          /\ origin = "hand" /\ objs = src.objs

\* the driver starts a COPY FROM of the file a finished COPY TO wrote
CopyFromWrittenFile ==
    /\ dir = "to" /\ pc = "ended" /\ ~error
    /\ dir' = "from" /\ pc' = "fstart"
    /\ filename' = IF options.compression = "PG_COMPRESSION_GZIP" THEN NameGz ELSE NameJson
    /\ options' = NoOptions /\ to_strm' = ZUnset
    /\ nopts' = 0 /\ opt_ret' = "none" /\ last_opt' = NoOpt
    /\ last_wg' = NoWg /\ ztrace' = NoZ
    /\ UNCHANGED <<errmsg, file, fromVars, written, zlog, fromHist>>

Next ==
    \/ \E o \in OptionDefs : JsonLinesCopyToProcessOneOption(o[1], o[2])
    \/ JsonLinesCopyToStart
    \/ \E row \in Rows, emit \in BOOLEAN : JsonLinesCopyToOneRow(row, emit)
    \/ JsonLinesCopyToEnd
    \/ CopyFromWrittenFile
    \/ \E o \in OptionDefs, ub \in {"crash", "skip"} :
          CopyFromProcessOneOption(o[1], o[2], ub)
    \/ \E ub \in {"crash", "gzip", "none"} : JsonLinesCopyFromStart(ub)
    \/ JsonLinesCopyFromOneRow
    \/ \E n \in 1 .. Min(INPUT_BUF_SIZE, RAW_BUF_SIZE) : JsonLineReadLine(n)
    \/ JsonLinesCopyFromEnd

Spec == Init /\ [][Next]_vars

\* a JsonLineReadLine call is running
InReadLine == dir = "from" /\ pc = "readline" /\ ~error

\* the running call does one more iteration of its loop and stays in it:
\* the steps of JsonLineReadLine that do not end the call, and only those
LoopIteration == InReadLine /\ iter' = 1 - iter

\* A Line Reader loop that has been entered keeps running: no iteration
\* waits for anything but the source, which answers every fetch.
FairSpec == Spec /\ WF_iter(LoopIteration)

(***************************************************************************)
(* Properties                                                              *)
(***************************************************************************)
IsPrefix(s, t) == Len(s) <= Len(t) /\ s = SubSeq(t, 1, Len(s))

\* the lines of a byte stream: what precedes each newline byte
RECURSIVE SplitLines(_, _)
SplitLines(s, cur) ==
    IF s = <<>> THEN <<>>
    ELSE IF Head(s) = Ch.nl THEN <<cur>> \o SplitLines(Tail(s), <<>>)
    ELSE SplitLines(Tail(s), Append(cur, Head(s)))

CountNl(s) == Cardinality({ i \in 1 .. Len(s) : s[i] = Ch.nl })

ReadingWritten(name) == dir = "from" /\ origin = "copyto" /\ filename = name

\* C1: the rows COPY FROM returns from a file an uncompressed COPY TO wrote
\* are, under every chunking of the source, the rows written, in order and
\* with the same values and null flags: never an error, always a prefix of
\* the rows written, and all of them once end-of-input is reported.
UncompressedRoundTrip ==
    ReadingWritten(NameJson) =>
        /\ ~error /\ pc # "crashed"
        /\ IsPrefix(rows_read, written)
        /\ pc \in {"eof", "ended"} => rows_read = written

UncompressedRoundTripWitness ==
    /\ ReadingWritten(NameJson) /\ pc = "eof"
    /\ Len(written) >= 2 /\ rows_read = written
    /\ \E i \in 1 .. Len(written) : written[i][2] = Datum(<<Ch.quote, Ch.nl>>)

\* C2: the rows COPY FROM returns from a file a gzip COPY TO wrote are the
\* rows written, for every chunking of the compressed bytes.
GzipRoundTrip ==
    ReadingWritten(NameGz) =>
        /\ ~error /\ pc # "crashed"
        /\ IsPrefix(rows_read, written)
        /\ pc \in {"eof", "ended"} => rows_read = written

\* C3: on the gzip path end-of-input is reported only after the source
\* returned a zero-length fetch, with no raw byte available and none offered
\* to the transform in the refill that produced nothing.
GzipEofOnlyAtStreamEnd ==
    (dir = "from" /\ compression = "PG_COMPRESSION_GZIP" /\ pc = "eof") =>
        src_eof /\ RAW_BUF_BYTES = 0 /\ inbytes = 0

HasDot(name) == \E i \in 1 .. Len(name) : name[i] = "."

\* C4: on the uncompressed path (of a source whose name has an extension)
\* the lines the Line Reader returns are, under every chunking, the lines of
\* the source split at its newline bytes.
LinesIndependentOfChunking ==
    (dir = "from" /\ HasDot(filename) /\ compression = "PG_COMPRESSION_NONE"
        /\ pc \notin {"fstart", "crashed"}) =>
        /\ IsPrefix(lines, SplitLines(file, <<>>))
        /\ pc = "eof" => lines = SplitLines(file, <<>>)

RenderObject(ms) == <<Ch.lbrace>> \o RenderMembers(ms, 1) \o <<Ch.rbrace>>

RowMembers(row) ==
    [i \in 1 .. natts |->
        Member(TupleDesc[i].attname, DatumToJson(row[i], TupleDesc[i].atttype))]

\* the JSON objects the source files are made of
KnownObjects == { o.members : o \in HandObjs } \cup { RowMembers(r) : r \in Rows }

LacksOrNull(ms, key) == \A j \in 1 .. Len(ms) : ms[j].key = key => ms[j].text = LitNull

HoldsText(ms, key, text) == \E j \in 1 .. Len(ms) : ms[j].key = key /\ ms[j].text = text

\* C5: when a row has been returned, the null flag of every target column
\* is true iff the object of the current line lacks the column's key or
\* holds null for it, whatever the rows before left in the reused Decoded
\* Row, and a non-null cell holds the value of that member; members under
\* other keys change nothing.
NullsFollowCurrentLine ==
    (dir = "from" /\ pc = "idle" /\ rows_read # <<>>) =>
        /\ rows_read[Len(rows_read)] = DecodedRow(values, nulls)
        /\ \E ms \in KnownObjects :
            /\ RenderObject(ms) = CStr(line_buf)
            /\ \A i \in attnumlist :
                /\ nulls[i] = LacksOrNull(ms, TupleDesc[i].attname)
                /\ ~nulls[i] => HoldsText(ms, TupleDesc[i].attname,
                                          DatumToJson(Datum(values[i]), TupleDesc[i].atttype))

\* a row with a value for column a was returned, and then a row from an
\* object that lacks a, holds null for b and has a member z
NullsFollowCurrentLineWitness ==
    /\ dir = "from" /\ pc = "idle" /\ Len(rows_read) = 2
    /\ ~rows_read[1][1].isnull /\ nulls[1] /\ nulls[2]
    /\ \E ms \in KnownObjects :
        /\ RenderObject(ms) = CStr(line_buf)
        /\ \E j \in 1 .. Len(ms) : ms[j].key = <<Ch.z>>

\* C6: from an uncompressed source that ends in a tail without newline, the
\* call that gets the zero-length refill reports end-of-input, and the rows
\* returned before it are as many as the source has newline bytes.
NoRowFromTail ==
    (dir = "from" /\ origin = "hand" /\ objs.tail # <<>> /\ HasDot(filename)
        /\ compression = "PG_COMPRESSION_NONE" /\ pc \notin {"fstart", "crashed"}) =>
        /\ src_eof => pc \in {"eof", "ended"}
        /\ pc = "eof" => Len(rows_read) = CountNl(file)

Repeat(x, k) == [i \in 1 .. k |-> x]

\* C7: in a COPY TO without error, on a gzip stream the finish run of the
\* transform (write_gzip with Z_FINISH) happens exactly once, after one
\* no-flush run per row and right before the release of the stream; on an
\* uncompressed stream the transform is never run.
FinishOnce ==
    (dir = "to" /\ ~error) =>
        IF options.compression = "PG_COMPRESSION_GZIP" /\ pc # "opts"
        THEN /\ zlog = <<"init">> \o Repeat("Z_NO_FLUSH", Len(written))
                       \o (IF pc = "ended" THEN <<"Z_FINISH", "end">> ELSE <<>>)
             /\ ztrace.ends = (IF pc = "ended" THEN 1 ELSE 0)
        ELSE zlog = <<>> /\ ztrace = NoZ /\ ~ZLive(to_strm)

FinishOnceWitness ==
    /\ dir = "to" /\ ~error /\ pc = "ended" /\ Len(written) >= 2
    /\ options.compression = "PG_COMPRESSION_GZIP"
    /\ to_strm.status = "ended" /\ last_wg.flush = "Z_FINISH"

EndsWithDotGz(name) ==
    Len(name) >= Len(DotGz) /\ SubSeq(name, Len(name) - Len(DotGz) + 1, Len(name)) = DotGz

HardErrors == {"could not compress data", "could not decompress data"}

\* C8: when the transform reported a hard error (here on a source named
\* *.gz), the transform state created at start has been released exactly
\* once when the end routine has run.
TransformReleasedOnce ==
    (pc = "ended" /\ errmsg \in HardErrors /\ ztrace.inits = 1
        /\ (dir = "from" => EndsWithDotGz(filename))) => ztrace.ends = 1

\* C9: for every file name, start completes and selects the gzip path iff
\* the name ends with ".gz".
SuffixSelectsCompression ==
    (dir = "from" /\ pc # "fstart" /\ nopts = 0) =>
        /\ pc # "crashed"
        /\ (compression = "PG_COMPRESSION_GZIP") <=> EndsWithDotGz(filename)

ConfigErrors == {"unrecognized compression algorithm", "LZ4 compression is not supported",
                 "Zstd compression is not supported", "invalid compression specification"}

Supported == {"PG_COMPRESSION_NONE", "PG_COMPRESSION_GZIP"}

\* C10: in a COPY TO, a compression option that names an unknown or an
\* unsupported algorithm, or a tuning string that fails validation, raises
\* an error in option processing or in start; after such an error no row
\* was encoded, no transform state was created and no byte was sent; and
\* rows are consumed only with the algorithm none or gzip.
ConfigErrorsPrecedeRows ==
    dir = "to" =>
        /\ errmsg \in ConfigErrors =>
              written = <<>> /\ file = <<>> /\ ztrace.inits = 0 /\ ~ZLive(to_strm)
        /\ (pc # "opts" /\ ~error) =>
              /\ options.compression \in Supported
              /\ CompressSpecOk(options.compression, options.compression_detail_str)
        /\ opt_ret = "true" => options.compression \in Supported
        /\ written # <<>> => options.compression \in Supported

ConfigErrorsPrecedeRowsWitness ==
    /\ dir = "to" /\ pc = "ended" /\ errmsg = "invalid compression specification"
    /\ options.compression = "PG_COMPRESSION_GZIP" /\ nopts = 2

MalformedErrors == {"invalid data for jsonb value", "could not convert jsonb value"}

\* every column of the relation that the object holds a non-null value for
\* gets a text its input function accepts
ConvertsAll(obj) ==
    \A i \in attnumlist :
        LET v == getKeyJsonValueFromContainer(obj, TupleDesc[i].attname) IN
        (v.found /\ v.v.type # "jbvNull") =>
            InputFunctionCallSafe(TupleDesc[i].atttype, GetJsonbValueAsCString(v.v)).ok

\* the bytes of the line are valid JSON whose column texts all convert
ValidRecord(line) == jsonb_in(line).ok /\ ConvertsAll(jsonb_in(line).obj)

\* C11: a returned line that is not valid JSON, or one with a column text
\* that fails its type conversion, ends the call in an error without a row:
\* it is the last line returned, the error is raised, and every line before
\* it gave a row.
MalformedIsFatal ==
    dir = "from" =>
        /\ Len(rows_read) <= Len(lines)
        /\ errmsg \in MalformedErrors =>
              Len(lines) = Len(rows_read) + 1 /\ pc \notin {"idle", "eof"}
        /\ \A i \in 1 .. Len(lines) :
              ~ValidRecord(lines[i]) =>
                  i = Len(lines) /\ errmsg \in MalformedErrors /\ Len(rows_read) = i - 1

RecognizedOptions == {"compression", "compression_detail"}

\* C12: in both directions, a process-one-option step for compression or
\* compression_detail recognizes the option (it is accepted, or rejected
\* for its value), and a step for any other name reports it as not
\* recognized and leaves the stored options as they were.
OptionsRecognized ==
    [][ nopts' = nopts + 1 =>
          /\ pc' # "crashed"
          /\ IF last_opt'[1] \in RecognizedOptions
             THEN opt_ret' \in {"true", "raised"}
             ELSE /\ opt_ret' = "false"
                  /\ options' = options /\ compression' = compression ]_vars

\* C13: in every state of a read stream both the Input Buffer and the Raw
\* Byte Buffer satisfy 0 <= index <= len <= capacity, and hold len bytes.
BuffersInBounds ==
    dir = "from" =>
        /\ 0 <= input_buf_index /\ input_buf_index <= input_buf_len
        /\ input_buf_len <= INPUT_BUF_SIZE /\ Len(input_buf) = input_buf_len
        /\ 0 <= raw_buf_index /\ raw_buf_index <= raw_buf_len
        /\ raw_buf_len <= RAW_BUF_SIZE /\ Len(raw_buf) = raw_buf_len

\* on the gzip path inflate filled the whole Input Buffer and the newline
\* found at its last byte was consumed
BuffersInBoundsWitness ==
    /\ dir = "from" /\ compression = "PG_COMPRESSION_GZIP" /\ pc = "idle"
    /\ rows_read # <<>>
    /\ input_buf_len = INPUT_BUF_SIZE /\ input_buf_index = input_buf_len
    /\ input_buf[input_buf_len] = Ch.nl

\* a step changed what the buffer holds or moved its index back
InputRefilled ==
    input_buf' # input_buf \/ input_buf_len' # input_buf_len
        \/ input_buf_index' < input_buf_index

RawFetched ==
    raw_buf' # raw_buf \/ raw_buf_len' # raw_buf_len \/ raw_buf_index' < raw_buf_index

\* the bytes the source handed over in the step
Fetched == SubSeq(file, src_pos + 1, src_pos')

\* the bytes the step moved from the Input Buffer to the Line Buffer start
\* at the first byte of the buffer and end at its index (less the newline
\* of a full line)
ConsumedFromStart ==
    \E k \in {input_buf_index', input_buf_index' - 1} :
        /\ k >= 0
        /\ line_buf' = line_buf \o SubSeq(input_buf', 1, k)

\* C14: a step of the Line Reader refills the Input Buffer only when it has
\* no unread byte, and fetches into the Raw Byte Buffer only when that has
\* none; the refilled buffer holds exactly the bytes obtained, len is their
\* number and reading restarts at index 0.
RefillOnlyWhenEmpty ==
    [][ (dir = "from" /\ pc = "readline") =>
          /\ InputRefilled =>
                /\ INPUT_BUF_BYTES = 0
                /\ input_buf_len' = Len(input_buf')
                /\ compression = "PG_COMPRESSION_NONE" => input_buf' = Fetched
                /\ ConsumedFromStart
          /\ RawFetched =>
                /\ RAW_BUF_BYTES = 0
                /\ raw_buf' = Fetched /\ raw_buf_len' = Len(Fetched)
                /\ fed' = fed \o SubSeq(raw_buf', 1, raw_buf_index') ]_vars

\* Input Buffer and Raw Byte Buffer were both refilled, from a non-empty
\* earlier content, more than once
RefillOnlyWhenEmptyWitness ==
    /\ dir = "from" /\ compression = "PG_COMPRESSION_GZIP" /\ pc = "readline"
    /\ src_pos > RAW_BUF_SIZE /\ raw_buf_len > 0 /\ input_buf_len > 0
    /\ Len(line_buf) > INPUT_BUF_SIZE

\* C15: on the gzip read path the bytes the transform consumed are, in
\* order, a prefix of the source, and (short of an error) they are all the
\* bytes fetched but those still unread in the Raw Byte Buffer: none is
\* skipped and none is fed twice.
ConsumedIsSourcePrefix ==
    (dir = "from" /\ compression = "PG_COMPRESSION_GZIP") =>
        /\ IsPrefix(fed, file)
        /\ ~error => Len(fed) = src_pos - RAW_BUF_BYTES

\* the transform had stopped early on a full Input Buffer, and the last
\* refill fed it the rest of the raw chunk without a fetch
ConsumedIsSourcePrefixWitness ==
    /\ ReadingWritten(NameGz) /\ ~error /\ pc = "readline"
    /\ 0 < inbytes /\ inbytes < raw_buf_len /\ RAW_BUF_BYTES = 0
    /\ Len(fed) = src_pos /\ src_pos > RAW_BUF_SIZE

RECURSIVE LinesLen(_, _)
\* the bytes of the first k lines of ls, newlines included
LinesLen(ls, k) == IF k = 0 THEN 0 ELSE Len(ls[k]) + 1 + LinesLen(ls, k - 1)

\* the Line Reader has just returned a full line
LineReturned == lines # <<>> /\ (pc = "idle" \/ errmsg \in MalformedErrors)

\* C16: when the Line Reader has returned a full line (uncompressed source
\* with an extension in its name), the Line Buffer holds exactly the bytes
\* between the newline consumed before and the next newline of the input:
\* no newline byte, the bytes of one record only, and the consumed offset of
\* the Input Buffer is just past that newline.
FullLineIsOneRecord ==
    (dir = "from" /\ HasDot(filename) /\ compression = "PG_COMPRESSION_NONE"
        /\ LineReturned) =>
        LET all == SplitLines(file, <<>>)
            k == Len(lines)
        IN /\ line_buf = lines[k]
           /\ \A i \in 1 .. Len(line_buf) : line_buf[i] # Ch.nl
           /\ k <= Len(all) /\ line_buf = all[k]
           /\ input_buf_index >= 1 /\ input_buf[input_buf_index] = Ch.nl
           /\ src_pos - INPUT_BUF_BYTES = LinesLen(all, k)

RECURSIVE TextOf(_, _)
\* the text COPY TO encodes the rows from the i-th on into: a line per row
TextOf(rows, i) ==
    IF i > Len(rows) THEN <<>>
    ELSE CStr(row_to_json(rows[i])) \o <<Ch.nl>> \o TextOf(rows, i + 1)

RECURSIVE InflateAll(_, _, _)
\* a decompressor reading the bytes s a few at a time: [out, ret]
InflateAll(z, s, out) ==
    LET r == inflate(z, Take(s, GZIP_CHUNK_SIZE), 2 * GZIP_CHUNK_SIZE + 2) IN
    IF r.ret \in ZNegative \/ r.ret = "Z_STREAM_END" \/ s = <<>>
    THEN [out |-> out \o r.out, ret |-> r.ret]
    ELSE InflateAll(r.strm, Drop(s, r.consumed), out \o r.out)

\* what a decompressor makes of the bytes s
Inflated(s) == InflateAll(InflateInit, s, <<>>)

\* C17: on the gzip write path, when consume-this-row or end has returned
\* without error, the transform has no input pending and no produced byte
\* left undelivered, all calls of deflate but the last filled the output
\* buffer, and the bytes sent so far are, in order, what the transform
\* produced: they decompress to the text of the rows less what the
\* transform still buffers, and to the whole text once ended.
WriteGzipDrains ==
    (dir = "to" /\ ~error /\ options.compression = "PG_COMPRESSION_GZIP"
        /\ last_wg.calls > 0) =>
        /\ last_wg.rest = 0 /\ to_strm.pending = <<>>
        /\ (last_wg.calls - 1) * GZIP_CHUNK_SIZE <= last_wg.sent
        /\ last_wg.sent < last_wg.calls * GZIP_CHUNK_SIZE
        /\ Inflated(file).out \o to_strm.window = TextOf(written, 1)
        /\ pc = "ended" => Inflated(file).ret = "Z_STREAM_END" /\ to_strm.window = <<>>

\* a row call and the end call have both run the loop over a full buffer
WriteGzipDrainsWitness ==
    /\ dir = "to" /\ ~error /\ options.compression = "PG_COMPRESSION_GZIP"
    /\ pc = "ended" /\ Len(written) >= 2 /\ last_wg.calls >= 2
    /\ Len(file) > 2 * GZIP_CHUNK_SIZE

\* C18 as stated: every produce-next-row call, on a source whose name has a
\* suffix, ends with a full line returned or with end-of-input.
ReadLineReturnsLineOrEof ==
    (InReadLine /\ HasDot(filename)) ~> (LineReturned \/ pc = "eof")

\* C18: every produce-next-row call terminates: the Line Reader loop ends
\* with a full line returned, with end-of-input, or, on the gzip path, with
\* the error of the transform.
ReadLineTerminates ==
    InReadLine ~> (LineReturned \/ pc = "eof" \/ errmsg = "could not decompress data")

\* end-of-input was reported for a source without any newline, longer than
\* the Input Buffer, after it was read to its end
ReadLineTerminatesWitness ==
    /\ dir = "from" /\ pc = "eof" /\ src_eof /\ ~error
    /\ lines = <<>> /\ line_buf = file
    /\ Len(file) > INPUT_BUF_SIZE /\ CountNl(file) = 0

====
